---------------------------- MODULE Spec2Model ----------------------------
(***************************************************************************)
(* A model of the data processing of ChicagoCrimeVisualizer (script.js):   *)
(* the per-neighbourhood crime counts (processCrimeCounts) and the         *)
(* k-nearest-neighbour graph over the neighbourhood centroids              *)
(* (calculateKNN).                                                         *)
(*                                                                         *)
(* Representation.                                                         *)
(*  - A GeoJSON feature is the record of its PRI_NEIGH property; a         *)
(*    missing property is the value undefined, an empty one is "".         *)
(*  - A centroid object is referred to by its position in data.centroids   *)
(*    (JavaScript compares the objects by identity, and every position     *)
(*    holds its own object); a link is a pair of such references.          *)
(*  - Coordinates are small integers.  distance() is kept squared: the     *)
(*    code only ever compares distances, and Math.sqrt is strictly         *)
(*    increasing on the values that occur here.                            *)
(*  - dist is a record so that the Infinity that the code gives to a       *)
(*    centroid's distance to itself is a value of its own.                 *)
(***************************************************************************)
EXTENDS Integers, Sequences, FiniteSets

VARIABLES
    pc,                 \* position of the control flow inside processData
    knn_k,              \* config.knn.k
    neighborhoods,      \* data.neighborhoods.features
    crimes,             \* data.crimes.features (their PRI_NEIGH property)
    validNeighborhoods, \* this.validNeighborhoods
    crimeCounts,        \* data.crimeCounts
    centroids,          \* data.centroids
    knnLinks,           \* data.knnLinks
    i,                  \* index of the running forEach (1-based)
    k,                  \* the for-loop counter of calculateKNN
    distances,          \* the sorted array `distances` of the current centroid
    neighbors,          \* per centroid, the `neighbor`s its loop has taken
    loads,              \* the two d3.json promises of loadData
    docs,               \* the two documents the files hold
    errors,             \* the messages showError has put on the page
    projection,         \* this.projection / this.pathGenerator
    maxCrimeCount,      \* this.maxCrimeCount
    breaks,             \* this.breaks
    components,         \* this.components (the keys, in insertion order)
    rendered,           \* the components whose render() has drawn
    points              \* the point records before the spatial join

(* The state of the run around the data: loading, scales, drawing.         *)
runVars == <<loads, docs, errors, projection, maxCrimeCount, breaks,
             components, rendered, points>>

vars == <<pc, knn_k, neighborhoods, crimes, validNeighborhoods, crimeCounts,
          centroids, knnLinks, i, k, distances, neighbors, runVars>>

-----------------------------------------------------------------------------
(* Bounds of the model.                                                    *)

MaxPolygons == 2
MaxCrimes == 3
MaxN == 3
MaxK == 2
MaxN5 == 7

(* CONFIG.knn.k *)
ConfigK == 5

(* The value of a property that is not there.                              *)
undefined == "<undefined>"

PolygonNames == {undefined, "", "A", "B"}
CrimeNames == {undefined, "", "A", "B", "Z"}
CentroidNames == {"A", "B"}
Coords == {<<0, 0>>, <<1, 0>>, <<2, 0>>, <<10, 10>>}
Coords5 == {<<0, 0>>, <<1, 0>>, <<10, 10>>}
UniqueNames == <<"N1", "N2", "N3", "N4", "N5", "N6", "N7", "N8">>

SeqsUpTo(S, n) == UNION {[1..m -> S] : m \in 0..n}

(* A feature whose `properties` member is null: reading a property of it   *)
(* throws a TypeError.                                                     *)
noProperties == "<properties: null>"

(* No projection yet (this.projection is undefined).                       *)
NoProjection == [set |-> FALSE, x0 |-> 0, y0 |-> 0, x1 |-> 0, y1 |-> 0]

NoDocument == [shape |-> "null", features |-> <<>>]

(* The members the constructor sets, and nothing loaded or drawn.          *)
ConstructedRun ==
    /\ errors = <<>>
    /\ projection = NoProjection
    /\ maxCrimeCount = 0
    /\ breaks = <<>>
    /\ components = <<>>
    /\ rendered = <<>>

(* The specifications of a single stage leave the loading aside.           *)
IdleRun ==
    /\ ConstructedRun
    /\ loads = [neighborhoods |-> "resolved", crimes |-> "resolved"]
    /\ docs = [neighborhoods |-> NoDocument, crimes |-> NoDocument]
    /\ points = <<>>

-----------------------------------------------------------------------------
(* processData: the filter of the valid neighbourhoods, processCrimeCounts *)

(* JavaScript truthiness of a name: a missing or empty name is falsy.      *)
TruthyLoose(name) == name # undefined

Truthy(name) == name # undefined /\ name # ""

RECURSIVE filter(_)
filter(features) ==
    IF features = <<>> THEN <<>>
    ELSE IF Truthy(Head(features).name)
         THEN <<Head(features)>> \o filter(Tail(features))
         ELSE filter(Tail(features))

(* this.data.crimeCounts[name] = 0 *)
SetOne(counts, name) ==
    [x \in (DOMAIN counts) \cup {name} |-> IF x = name THEN 1 ELSE counts[x]]

SetZero(counts, name) ==
    [x \in (DOMAIN counts) \cup {name} |-> IF x = name THEN 0 ELSE counts[x]]

(* neighborhoodName && this.data.crimeCounts.hasOwnProperty(neighborhoodName) *)
Counted(counts, name) == Truthy(name) /\ name \in DOMAIN counts

(* this.data.crimeCounts[neighborhoodName]++ *)
Assign1(counts, name) == [counts EXCEPT ![name] = 1]

Increment(counts, name) == [counts EXCEPT ![name] = @ + 1]

FilterValid ==
    /\ pc = "processData"
    /\ \A j \in 1..Len(neighborhoods) : neighborhoods[j].name # noProperties
    /\ validNeighborhoods' = filter(neighborhoods)
    /\ i' = 1
    /\ pc' = "initCounts"
    /\ UNCHANGED runVars
    /\ UNCHANGED <<knn_k, neighborhoods, crimes, crimeCounts, centroids,
                   knnLinks, k, distances, neighbors>>

InitCount ==
    /\ pc = "initCounts"
    /\ i <= Len(validNeighborhoods)
    /\ crimeCounts' = SetZero(crimeCounts, validNeighborhoods[i].name)
    /\ i' = i + 1
    /\ UNCHANGED runVars
    /\ UNCHANGED <<pc, knn_k, neighborhoods, crimes, validNeighborhoods,
                   centroids, knnLinks, k, distances, neighbors>>

InitCountsEnd ==
    /\ pc = "initCounts"
    /\ i > Len(validNeighborhoods)
    /\ i' = 1
    /\ pc' = "countCrimes"
    /\ UNCHANGED runVars
    /\ UNCHANGED <<knn_k, neighborhoods, crimes, validNeighborhoods,
                   crimeCounts, centroids, knnLinks, k, distances, neighbors>>

CountCrime ==
    /\ pc = "countCrimes"
    /\ i <= Len(crimes)
    /\ crimes[i] # noProperties
    /\ crimeCounts' = IF Counted(crimeCounts, crimes[i])
                      THEN Increment(crimeCounts, crimes[i])
                      ELSE crimeCounts
    /\ i' = i + 1
    /\ UNCHANGED runVars
    /\ UNCHANGED <<pc, knn_k, neighborhoods, crimes, validNeighborhoods,
                   centroids, knnLinks, k, distances, neighbors>>

CountCrimesEnd ==
    /\ pc = "countCrimes"
    /\ i > Len(crimes)
    /\ pc' = "countsDone"
    /\ UNCHANGED runVars
    /\ UNCHANGED <<knn_k, neighborhoods, crimes, validNeighborhoods,
                   crimeCounts, centroids, knnLinks, i, k, distances,
                   neighbors>>

InitCounts ==
    /\ pc = "processData"
    /\ knn_k = ConfigK
    /\ neighborhoods \in SeqsUpTo([name : PolygonNames], MaxPolygons)
    /\ crimes \in SeqsUpTo(CrimeNames, MaxCrimes)
    /\ validNeighborhoods = <<>>
    /\ crimeCounts = <<>>
    /\ centroids = <<>>
    /\ knnLinks = <<>>
    /\ i = 1
    /\ k = 0
    /\ distances = <<>>
    /\ neighbors = <<>>
    /\ IdleRun

NextCounts ==
    \/ FilterValid
    \/ InitCount
    \/ InitCountsEnd
    \/ CountCrime
    \/ CountCrimesEnd

SpecCounts == InitCounts /\ [][NextCounts]_vars

-----------------------------------------------------------------------------
(* calculateKNN                                                            *)

(* (p1[0] - p2[0])^2 + (p1[1] - p2[1])^2, the square root left out         *)
distance(p1, p2) ==
    (p1[1] - p2[1]) * (p1[1] - p2[1]) + (p1[2] - p2[2]) * (p1[2] - p2[2])

Infinity == [inf |-> TRUE, d |-> 0]
Finite(n) == [inf |-> FALSE, d |-> n]

(* The array of .map with the distance between the positions in the input *)
(* in place of the distance between the coordinates.                       *)
mapDistancesByIndex(c) ==
    [j \in 1..Len(centroids) |->
        [index |-> j,
         dist  |-> IF c = j THEN Infinity ELSE Finite((c - j) * (c - j))]]

(* The array that .map builds for the centroid at position c.              *)
mapDistances(c) ==
    [j \in 1..Len(centroids) |->
        [index |-> j,
         dist  |-> IF c = j THEN Infinity
                   ELSE Finite(distance(centroids[c].coords,
                                        centroids[j].coords))]]

(* The sign of b.dist - a.dist: the comparator with its operands swapped.  *)
CompareDesc(a, b) ==
    IF a.dist.inf /\ b.dist.inf THEN 0
    ELSE IF a.dist.inf THEN -1
    ELSE IF b.dist.inf THEN 1
    ELSE IF a.dist.d < b.dist.d THEN 1
    ELSE IF a.dist.d > b.dist.d THEN -1
    ELSE 0

(* The sign of (a, b) => a.dist - b.dist as Array.prototype.sort reads it: *)
(* Infinity - Infinity is NaN, which sort takes for 0.                     *)
Compare(a, b) ==
    IF a.dist.inf /\ b.dist.inf THEN 0
    ELSE IF a.dist.inf THEN 1
    ELSE IF b.dist.inf THEN -1
    ELSE IF a.dist.d < b.dist.d THEN -1
    ELSE IF a.dist.d > b.dist.d THEN 1
    ELSE 0

(* x put into the sorted array s behind every element that does not        *)
(* compare greater than x.                                                 *)
RECURSIVE Insert(_, _)
Insert(s, x) ==
    IF s = <<>> THEN <<x>>
    ELSE IF Compare(Head(s), x) <= 0
         THEN <<Head(s)>> \o Insert(Tail(s), x)
         ELSE <<x>> \o s

(* x put in front of the elements that compare equal to it.                *)
RECURSIVE InsertBefore(_, _)
InsertBefore(s, x) ==
    IF s = <<>> THEN <<x>>
    ELSE IF Compare(Head(s), x) < 0
         THEN <<Head(s)>> \o InsertBefore(Tail(s), x)
         ELSE <<x>> \o s

(* A sort that reverses the elements that compare equal.                   *)
RECURSIVE sortUnstable(_)
sortUnstable(s) ==
    IF s = <<>> THEN <<>>
    ELSE InsertBefore(sortUnstable(SubSeq(s, 1, Len(s) - 1)), s[Len(s)])

(* Array.prototype.sort: stable, elements that compare equal keep their    *)
(* order.                                                                  *)
RECURSIVE sort(_)
sort(s) ==
    IF s = <<>> THEN <<>>
    ELSE Insert(sort(SubSeq(s, 1, Len(s) - 1)), s[Len(s)])

(* The duplicate test with its second alternative left out.                *)
ExistsOneWay(links, center1, neighbor) ==
    \E p \in 1..Len(links) :
        links[p].source = center1 /\ links[p].target = neighbor

(* knnLinks.some(link => ...): the link is there in either direction.      *)
exists(links, center1, neighbor) ==
    \E p \in 1..Len(links) :
        \/ links[p].source = center1 /\ links[p].target = neighbor
        \/ links[p].source = neighbor /\ links[p].target = center1

(* One callback of centroids.forEach begins: map and sort.                 *)
KnnCenter ==
    /\ pc = "calculateKNN"
    /\ i <= Len(centroids)
    /\ distances' = sort(mapDistances(i))
    /\ k' = 0
    /\ pc' = "takeTopK"
    /\ UNCHANGED runVars
    /\ UNCHANGED <<knn_k, neighborhoods, crimes, validNeighborhoods,
                   crimeCounts, centroids, knnLinks, i, neighbors>>

(* One round of the for loop.                                              *)
TakeNeighbor ==
    /\ pc = "takeTopK"
    /\ k < knn_k /\ k < Len(distances)
    /\ LET neighbor == distances[k + 1].index
       IN  /\ knnLinks' =
                 IF exists(knnLinks, i, neighbor) THEN knnLinks
                 ELSE Append(knnLinks, [source |-> i, target |-> neighbor])
           /\ neighbors' = [neighbors EXCEPT ![i] = @ \cup {neighbor}]
    /\ k' = k + 1
    /\ UNCHANGED runVars
    /\ UNCHANGED <<pc, knn_k, neighborhoods, crimes, validNeighborhoods,
                   crimeCounts, centroids, i, distances>>

(* The for loop ends; forEach goes to the next centroid.                   *)
KnnCenterEnd ==
    /\ pc = "takeTopK"
    /\ ~(k < knn_k /\ k < Len(distances))
    /\ i' = i + 1
    /\ pc' = "calculateKNN"
    /\ UNCHANGED runVars
    /\ UNCHANGED <<knn_k, neighborhoods, crimes, validNeighborhoods,
                   crimeCounts, centroids, knnLinks, k, distances, neighbors>>

KnnEnd ==
    /\ pc = "calculateKNN"
    /\ i > Len(centroids)
    /\ pc' = "knnDone"
    /\ UNCHANGED runVars
    /\ UNCHANGED <<knn_k, neighborhoods, crimes, validNeighborhoods,
                   crimeCounts, centroids, knnLinks, i, k, distances,
                   neighbors>>

(* The state when calculateKNN is called: the centroids are there, no link *)
(* yet.  calculateKNN reads nothing but the centroids and config.knn.k, so *)
(* the data of the earlier stages is left empty.                           *)
InitKnnWith(kSet, centroidSets) ==
    /\ pc = "calculateKNN"
    /\ knn_k \in kSet
    /\ centroids \in centroidSets
    /\ neighbors = [j \in 1..Len(centroids) |-> {}]
    /\ neighborhoods = <<>>
    /\ crimes = <<>>
    /\ validNeighborhoods = <<>>
    /\ crimeCounts = <<>>
    /\ knnLinks = <<>>
    /\ i = 1
    /\ k = 0
    /\ distances = <<>>
    /\ IdleRun

InitKNN ==
    InitKnnWith(1..MaxK,
                SeqsUpTo([name : CentroidNames, coords : Coords], MaxN))

(* The configured k = 5, every centroid with a name of its own.            *)
InitKNN5 ==
    InitKnnWith({ConfigK},
                {[j \in 1..Len(c) |-> [name |-> UniqueNames[j], coords |-> c[j]]] :
                    c \in SeqsUpTo(Coords5, MaxN5)})

NextKNN ==
    \/ KnnCenter
    \/ TakeNeighbor
    \/ KnnCenterEnd
    \/ KnnEnd

SpecKNN == InitKNN /\ [][NextKNN]_vars

SpecKNN5 == InitKNN5 /\ [][NextKNN]_vars

-----------------------------------------------------------------------------
(* createColorScale and NeighborhoodLayer.getFillColor                     *)

MaxCount == 40

(* CONFIG.visual.breakpoints, in hundredths.  All four are decimal         *)
(* fractions whose double lies below them, so Math.ceil(max * bp) is the   *)
(* ceiling of the exact product for the counts that occur.                 *)
breakpointsUnsorted == <<15, 60, 35, 100>>

breakpoints == <<15, 35, 60, 100>>

(* d3.max(allCounts) || 1 *)
RECURSIVE Max(_)
Max(S) ==
    IF S = {} THEN 0
    ELSE LET x == CHOOSE y \in S : TRUE
             m == Max(S \ {x})
         IN  IF x > m THEN x ELSE m

maxOr1(counts) ==
    LET m == Max({counts[r] : r \in DOMAIN counts})
    IN  IF m = 0 THEN 1 ELSE m

(* Math.ceil(max * bp) *)
CeilOf(max, bp) == (max * bp + 99) \div 100

(* [1], then one break per breakpoint, then the maximum.                   *)
makeBreaks(max) ==
    <<1>> \o [j \in 1..Len(breakpoints) |-> CeilOf(max, breakpoints[j])]
          \o <<max>>

(* this.breaks.slice(1, -1) *)
domain(bs) == SubSeq(bs, 2, Len(bs) - 1)

(* d3.bisectRight, the binary search of d3.scaleThreshold.                 *)
RECURSIVE bisect(_, _, _, _)
bisect(a, x, lo, hi) ==
    IF lo < hi
    THEN LET mid == (lo + hi) \div 2
         IN  IF a[mid + 1] <= x THEN bisect(a, x, mid + 1, hi)
             ELSE bisect(a, x, lo, mid)
    ELSE lo

(* The index in CONFIG.visual.colorScheme of scales.color(count); the      *)
(* scheme runs from the lightest (0) to the darkest (4) colour.            *)
color(bs, count) == bisect(domain(bs), count, 0, Len(domain(bs)))

(* getFillColor: -1 stands for CONFIG.visual.emptyColor.                   *)
getFillColor(bs, count) == IF count > 0 THEN color(bs, count) ELSE -1

(* Where a throw inside the then callback would go if it were swallowed.   *)
AfterThrowSwallowed == "knnDone"

(* A throw inside the then callback rejects the promise: .catch runs.      *)
AfterThrow == "catch"

(* The pc that follows a stage of processData, with the projection set up  *)
(* only after the centroids.                                               *)
AfterCentroidsFirst(stage) ==
    CASE stage = "createColorScale"   -> "calculateCentroids"
      [] stage = "calculateCentroids" -> "createProjection"
      [] stage = "createProjection"   -> "calculateKNN"

(* The pc that follows a stage of processData (lines 144-152).             *)
After(stage) ==
    CASE stage = "createColorScale"   -> "createProjection"
      [] stage = "createProjection"   -> "calculateCentroids"
      [] stage = "calculateCentroids" -> "calculateKNN"

CreateColorScale ==
    /\ pc = "countsDone"
    /\ maxCrimeCount' = maxOr1(crimeCounts)
    /\ breaks' = makeBreaks(maxOr1(crimeCounts))
    /\ pc' = After("createColorScale")
    /\ UNCHANGED <<loads, docs, errors, projection, components, rendered,
                   points>>
    /\ UNCHANGED <<knn_k, neighborhoods, crimes, validNeighborhoods,
                   crimeCounts, centroids, knnLinks, i, k, distances,
                   neighbors>>

(* The state when createColorScale is called, for counts up to MaxCount.   *)
InitColor ==
    /\ pc = "countsDone"
    /\ knn_k = ConfigK
    /\ crimeCounts \in UNION {[S -> 0..MaxCount] : S \in SUBSET {"A", "B"}}
    /\ neighborhoods = <<>>
    /\ crimes = <<>>
    /\ validNeighborhoods = <<>>
    /\ centroids = <<>>
    /\ knnLinks = <<>>
    /\ i = 1
    /\ k = 0
    /\ distances = <<>>
    /\ neighbors = <<>>
    /\ IdleRun

SpecColor == InitColor /\ [][CreateColorScale]_vars

-----------------------------------------------------------------------------
(* createProjection and calculateCentroids                                 *)
(*                                                                         *)
(* A feature of the run carries, beside its name, the position `geo` of    *)
(* its geometry and what d3's path centroid makes of it: `nonfinite` names *)
(* per coordinate a value that is not a finite number ("" for none).       *)
(* The fit of d3.geoMercator().fitSize is represented by the bounding box  *)
(* of the geometries it is given; projecting keeps the offset from the     *)
(* box's corner (the scale factor, the same for all, is left out).         *)

finite == <<"", "">>

RECURSIVE MinOf(_)
MinOf(S) ==
    LET x == CHOOSE y \in S : TRUE
    IN  IF S = {x} THEN x
        ELSE LET m == MinOf(S \ {x}) IN IF x < m THEN x ELSE m

RECURSIVE MaxOf(_)
MaxOf(S) ==
    LET x == CHOOSE y \in S : TRUE
    IN  IF S = {x} THEN x
        ELSE LET m == MaxOf(S \ {x}) IN IF x > m THEN x ELSE m

(* fitSize(size, object): the box of all the features of the object.       *)
fitSize(features) ==
    IF features = <<>>
    THEN [set |-> TRUE, x0 |-> 0, y0 |-> 0, x1 |-> 0, y1 |-> 0]
    ELSE LET xs == {features[j].geo[1] : j \in 1..Len(features)}
             ys == {features[j].geo[2] : j \in 1..Len(features)}
         IN  [set |-> TRUE, x0 |-> MinOf(xs), y0 |-> MinOf(ys),
              x1 |-> MaxOf(xs), y1 |-> MaxOf(ys)]

(* this.pathGenerator.centroid(feature) *)
pathCentroid(feature, proj) ==
    [coords |-> <<feature.geo[1] - proj.x0, feature.geo[2] - proj.y0>>,
     nonfinite |-> feature.nonfinite]

isNaN(tag) == tag = "NaN"

(* (d) => !isNaN(d.coords[0]) && !isNaN(d.coords[1]) *)
keep(d) == ~isNaN(d.nonfinite[1]) /\ ~isNaN(d.nonfinite[2])

RECURSIVE mapCentroids(_, _)
mapCentroids(features, proj) ==
    IF features = <<>> THEN <<>>
    ELSE LET c == pathCentroid(Head(features), proj)
             d == [name |-> Head(features).name, coords |-> c.coords,
                   nonfinite |-> c.nonfinite]
         IN  IF keep(d)
             THEN <<d>> \o mapCentroids(Tail(features), proj)
             ELSE mapCentroids(Tail(features), proj)

(* The features handed to fitSize: this.data.neighborhoods, all of them.   *)
fitObject(all, valid) == all

CreateProjection ==
    /\ pc = "createProjection"
    /\ projection' = fitSize(fitObject(neighborhoods, validNeighborhoods))
    /\ pc' = After("createProjection")
    /\ UNCHANGED <<loads, docs, errors, maxCrimeCount, breaks, components,
                   rendered, points>>
    /\ UNCHANGED <<knn_k, neighborhoods, crimes, validNeighborhoods,
                   crimeCounts, centroids, knnLinks, i, k, distances,
                   neighbors>>

(* Before createProjection this.pathGenerator is undefined and the call   *)
(* of its centroid method throws.                                          *)
CalculateCentroids ==
    /\ pc = "calculateCentroids"
    /\ IF projection.set
       THEN /\ centroids' = mapCentroids(validNeighborhoods, projection)
            /\ neighbors' = [j \in 1..Len(centroids') |-> {}]
            /\ i' = 1
            /\ pc' = After("calculateCentroids")
       ELSE /\ pc' = AfterThrow
            /\ UNCHANGED <<centroids, neighbors, i>>
    /\ UNCHANGED runVars
    /\ UNCHANGED <<knn_k, neighborhoods, crimes, validNeighborhoods,
                   crimeCounts, knnLinks, k, distances>>

MaxCentroidPolygons == 2

Nonfinites ==
    {finite, <<"NaN", "NaN">>, <<"", "NaN">>, <<"Infinity", "">>,
     <<"", "-Infinity">>}

(* The state when calculateCentroids is called: every polygon valid, the   *)
(* projection fitted, and whatever number the path centroid may be.        *)
InitCentroids ==
    /\ pc = "calculateCentroids"
    /\ knn_k = ConfigK
    /\ neighborhoods \in
          SeqsUpTo([name : {"A", "B"}, geo : {<<1, 1>>, <<3, 2>>},
                    nonfinite : Nonfinites], MaxCentroidPolygons)
    /\ validNeighborhoods = neighborhoods
    /\ projection = fitSize(neighborhoods)
    /\ crimes = <<>>
    /\ crimeCounts = [r \in {neighborhoods[j].name :
                                j \in 1..Len(neighborhoods)} |-> 0]
    /\ centroids = <<>>
    /\ knnLinks = <<>>
    /\ i = 1
    /\ k = 0
    /\ distances = <<>>
    /\ neighbors = <<>>
    /\ errors = <<>>
    /\ maxCrimeCount = 1
    /\ breaks = makeBreaks(1)
    /\ components = <<>>
    /\ rendered = <<>>
    /\ loads = [neighborhoods |-> "resolved", crimes |-> "resolved"]
    /\ docs = [neighborhoods |-> NoDocument, crimes |-> NoDocument]
    /\ points = <<>>

SpecCentroids == InitCentroids /\ [][CalculateCentroids]_vars

-----------------------------------------------------------------------------
(* loadData, validateData, the catch handler, initComponents and render    *)

MaxRunPolygons == 2
MaxRunCrimes == 1

(* The polygons of a run: two of the name A, a B, a B whose centroid is    *)
(* NaN, one without a name (outside the box of the others) and one whose   *)
(* properties are null.                                                    *)
RunFeatures ==
    {[name |-> "A", geo |-> <<1, 1>>, nonfinite |-> finite],
     [name |-> "A", geo |-> <<3, 2>>, nonfinite |-> finite],
     [name |-> "B", geo |-> <<3, 2>>, nonfinite |-> finite],
     [name |-> "B", geo |-> <<1, 1>>, nonfinite |-> <<"NaN", "NaN">>],
     [name |-> "", geo |-> <<0, 0>>, nonfinite |-> finite],
     [name |-> noProperties, geo |-> <<1, 1>>, nonfinite |-> finite]}

RunCrimes == {"A", "Z", noProperties}

Documents(S, n) ==
    {[shape |-> "ok", features |-> f] : f \in SeqsUpTo(S, n)}
        \cup {[shape |-> "null", features |-> <<>>],
              [shape |-> "nofeatures", features |-> <<>>]}

(* The document test that looks for a missing document only.               *)
invalidDocumentNullOnly(doc) == doc.shape = "null"

(* !data || !data.features *)
invalidDocument(doc) == doc.shape # "ok"

(* Object.values(this.components) in another order.                        *)
componentOrderSwapped ==
    <<"neighborhoods", "centroids", "knnLinks", "legend", "zoom">>

(* The keys of the object literal of initComponents, in insertion order,   *)
(* which is the order of Object.values.                                    *)
componentOrder ==
    <<"neighborhoods", "knnLinks", "centroids", "legend", "zoom">>

(* One of the two d3.json promises settles.                                *)
LoadResolves ==
    \E f \in {"neighborhoods", "crimes"} :
        /\ loads[f] = "pending"
        /\ loads' = [loads EXCEPT ![f] = "resolved"]
        /\ UNCHANGED <<docs, errors, projection, maxCrimeCount, breaks,
                       components, rendered, points>>
        /\ UNCHANGED <<pc, knn_k, neighborhoods, crimes, validNeighborhoods,
                       crimeCounts, centroids, knnLinks, i, k, distances,
                       neighbors>>

LoadRejects ==
    \E f \in {"neighborhoods", "crimes"} :
        /\ loads[f] = "pending"
        /\ loads' = [loads EXCEPT ![f] = "rejected"]
        /\ UNCHANGED <<docs, errors, projection, maxCrimeCount, breaks,
                       components, rendered, points>>
        /\ UNCHANGED <<pc, knn_k, neighborhoods, crimes, validNeighborhoods,
                       crimeCounts, centroids, knnLinks, i, k, distances,
                       neighbors>>

(* The promise is fulfilled as soon as one of the two loads is.            *)
PromiseRace(l) == \E f \in DOMAIN l : l[f] = "resolved"

(* Promise.all([...]) is fulfilled when both loads are.                    *)
PromiseAll(l) == \A f \in DOMAIN l : l[f] = "resolved"

(* Promise.all has resolved: the then callback starts.                     *)
Then ==
    /\ pc = "loadData"
    /\ PromiseAll(loads)
    /\ pc' = "validateData"
    /\ UNCHANGED runVars
    /\ UNCHANGED <<knn_k, neighborhoods, crimes, validNeighborhoods,
                   crimeCounts, centroids, knnLinks, i, k, distances,
                   neighbors>>

(* validateData and, when it returns true, lines 97-98.                    *)
ValidateData ==
    /\ pc = "validateData"
    /\ IF invalidDocument(docs["neighborhoods"])
       THEN /\ errors' = Append(errors, "Invalid neighborhood data structure")
            /\ pc' = "returned"
            /\ UNCHANGED <<neighborhoods, crimes>>
       ELSE IF invalidDocument(docs["crimes"])
       THEN /\ errors' = Append(errors, "Invalid crime data structure")
            /\ pc' = "returned"
            /\ UNCHANGED <<neighborhoods, crimes>>
       ELSE /\ neighborhoods' = docs["neighborhoods"].features
            /\ crimes' = docs["crimes"].features
            /\ pc' = "processData"
            /\ UNCHANGED errors
    /\ UNCHANGED <<loads, docs, projection, maxCrimeCount, breaks,
                   components, rendered, points>>
    /\ UNCHANGED <<knn_k, validNeighborhoods, crimeCounts, centroids,
                   knnLinks, i, k, distances, neighbors>>

(* The filter callback reads a property of null.                           *)
FilterThrows ==
    /\ pc = "processData"
    /\ \E j \in 1..Len(neighborhoods) : neighborhoods[j].name = noProperties
    /\ pc' = AfterThrow
    /\ UNCHANGED runVars
    /\ UNCHANGED <<knn_k, neighborhoods, crimes, validNeighborhoods,
                   crimeCounts, centroids, knnLinks, i, k, distances,
                   neighbors>>

(* The forEach callback of processCrimeCounts reads a property of null.    *)
CountCrimeThrows ==
    /\ pc = "countCrimes"
    /\ i <= Len(crimes)
    /\ crimes[i] = noProperties
    /\ pc' = AfterThrow
    /\ UNCHANGED runVars
    /\ UNCHANGED <<knn_k, neighborhoods, crimes, validNeighborhoods,
                   crimeCounts, centroids, knnLinks, i, k, distances,
                   neighbors>>

(* The .catch handler: a load was rejected, or the then callback threw.    *)
Catch ==
    /\ \/ pc = "loadData" /\ \E f \in DOMAIN loads : loads[f] = "rejected"
       \/ pc = "catch"
    /\ errors' = Append(errors,
                        "Error loading data. Check console and file paths.")
    /\ pc' = "failed"
    /\ UNCHANGED <<loads, docs, projection, maxCrimeCount, breaks,
                   components, rendered, points>>
    /\ UNCHANGED <<knn_k, neighborhoods, crimes, validNeighborhoods,
                   crimeCounts, centroids, knnLinks, i, k, distances,
                   neighbors>>

InitComponents ==
    /\ pc = "knnDone"
    /\ components' = componentOrder
    /\ i' = 1
    /\ pc' = "render"
    /\ UNCHANGED <<loads, docs, errors, projection, maxCrimeCount, breaks,
                   rendered, points>>
    /\ UNCHANGED <<knn_k, neighborhoods, crimes, validNeighborhoods,
                   crimeCounts, centroids, knnLinks, k, distances, neighbors>>

(* One callback of Object.values(this.components).forEach: render().       *)
RenderComponent ==
    /\ pc = "render"
    /\ i <= Len(components)
    /\ rendered' = Append(rendered, components[i])
    /\ i' = i + 1
    /\ UNCHANGED <<loads, docs, errors, projection, maxCrimeCount, breaks,
                   components, points>>
    /\ UNCHANGED <<pc, knn_k, neighborhoods, crimes, validNeighborhoods,
                   crimeCounts, centroids, knnLinks, k, distances, neighbors>>

RenderEnd ==
    /\ pc = "render"
    /\ i > Len(components)
    /\ pc' = "done"
    /\ UNCHANGED runVars
    /\ UNCHANGED <<knn_k, neighborhoods, crimes, validNeighborhoods,
                   crimeCounts, centroids, knnLinks, i, k, distances,
                   neighbors>>

(* The state the constructor leaves when init() has called loadData.       *)
Init ==
    /\ pc = "loadData"
    /\ knn_k = ConfigK
    /\ loads = [neighborhoods |-> "pending", crimes |-> "pending"]
    /\ docs \in [neighborhoods : Documents(RunFeatures, MaxRunPolygons),
                 crimes : Documents(RunCrimes, MaxRunCrimes)]
    /\ neighborhoods = <<>>
    /\ crimes = <<>>
    /\ validNeighborhoods = <<>>
    /\ crimeCounts = <<>>
    /\ centroids = <<>>
    /\ knnLinks = <<>>
    /\ i = 1
    /\ k = 0
    /\ distances = <<>>
    /\ neighbors = <<>>
    /\ points = <<>>
    /\ ConstructedRun

Next ==
    \/ LoadResolves
    \/ LoadRejects
    \/ Then
    \/ ValidateData
    \/ Catch
    \/ FilterValid
    \/ FilterThrows
    \/ InitCount
    \/ InitCountsEnd
    \/ CountCrime
    \/ CountCrimeThrows
    \/ CountCrimesEnd
    \/ CreateColorScale
    \/ CreateProjection
    \/ CalculateCentroids
    \/ KnnCenter
    \/ TakeNeighbor
    \/ KnnCenterEnd
    \/ KnnEnd
    \/ InitComponents
    \/ RenderComponent
    \/ RenderEnd

Spec == Init /\ [][Next]_vars

(* A rejected promise has its handler run: the job queue is served.        *)
SpecLive == Spec /\ WF_vars(Catch)

-----------------------------------------------------------------------------
(* The spatial join of the preprocessing step (preprocess_data.py), which  *)
(* writes the PRI_NEIGH property that processCrimeCounts reads.  The plane *)
(* is a set of cells; a polygon is the set of the cells it contains.       *)

MaxJoinPolygons == 2
MaxJoinPoints == 2

Cells == {"c1", "c2"}

JoinNames == {"", "A", "B"}

(* pointInPolygon(point, polygon) *)
pointInPolygon(point, polygon) == point \in polygon.cells

(* The identifier of the last valid polygon that contains the point.       *)
RECURSIVE lastContaining(_, _)
lastContaining(point, polygons) ==
    IF polygons = <<>> THEN undefined
    ELSE LET last == polygons[Len(polygons)]
         IN  IF Truthy(last.name) /\ pointInPolygon(point, last)
             THEN last.name
             ELSE lastContaining(point, SubSeq(polygons, 1, Len(polygons) - 1))

(* The containment test against every valid polygon in input order,        *)
(* stopping at the first that contains the point; absent when none does.   *)
RECURSIVE firstContaining(_, _)
firstContaining(point, polygons) ==
    IF polygons = <<>> THEN undefined
    ELSE IF Truthy(Head(polygons).name) /\ pointInPolygon(point, Head(polygons))
         THEN Head(polygons).name
         ELSE firstContaining(point, Tail(polygons))

(* assignRegions labels the next point.                                    *)
AssignRegion ==
    /\ pc = "assignRegions"
    /\ i <= Len(points)
    /\ crimes' = Append(crimes, firstContaining(points[i], neighborhoods))
    /\ i' = i + 1
    /\ UNCHANGED runVars
    /\ UNCHANGED <<pc, knn_k, neighborhoods, validNeighborhoods, crimeCounts,
                   centroids, knnLinks, k, distances, neighbors>>

AssignRegionsEnd ==
    /\ pc = "assignRegions"
    /\ i > Len(points)
    /\ pc' = "assigned"
    /\ UNCHANGED runVars
    /\ UNCHANGED <<knn_k, neighborhoods, crimes, validNeighborhoods,
                   crimeCounts, centroids, knnLinks, i, k, distances,
                   neighbors>>

InitJoin ==
    /\ pc = "assignRegions"
    /\ knn_k = ConfigK
    /\ neighborhoods \in
          SeqsUpTo([name : JoinNames, cells : SUBSET Cells], MaxJoinPolygons)
    /\ points \in SeqsUpTo(Cells, MaxJoinPoints)
    /\ crimes = <<>>
    /\ validNeighborhoods = <<>>
    /\ crimeCounts = <<>>
    /\ centroids = <<>>
    /\ knnLinks = <<>>
    /\ i = 1
    /\ k = 0
    /\ distances = <<>>
    /\ neighbors = <<>>
    /\ loads = [neighborhoods |-> "resolved", crimes |-> "resolved"]
    /\ docs = [neighborhoods |-> NoDocument, crimes |-> NoDocument]
    /\ ConstructedRun

NextJoin ==
    \/ AssignRegion
    \/ AssignRegionsEnd

SpecJoin == InitJoin /\ [][NextJoin]_vars

-----------------------------------------------------------------------------
(* The claims about calculateKNN.                                          *)

N == Len(centroids)

Others(c) == (1..N) \ {c}

Between(c, a) == distance(centroids[c].coords, centroids[a].coords)

(* For the centroid c, a is ranked before b: nearer, or as near and        *)
(* earlier in the input.                                                   *)
Before(c, a, b) ==
    \/ Between(c, a) < Between(c, b)
    \/ Between(c, a) = Between(c, b) /\ a < b

(* The knn_k nearest other centroids of c, ties by input index.            *)
Nearest(c) ==
    {b \in Others(c) :
        Cardinality({a \in Others(c) : Before(c, a, b)}) < knn_k}

(* The forEach callback of the centroid c has run to its end.              *)
Completed(c) ==
    /\ pc \in {"calculateKNN", "takeTopK", "knnDone"}
    /\ c \in 1..N
    /\ c < i

Pair(link) == {link.source, link.target}

NamePair(link) == {centroids[link.source].name, centroids[link.target].name}

Linked(a, b) == \E p \in 1..Len(knnLinks) : Pair(knnLinks[p]) = {a, b}

(* The spec's scenario: centroids at (0,0), (1,0), (10,10) and k = 1.      *)
Scenario ==
    /\ knn_k = 1
    /\ N = 3
    /\ centroids[1].coords = <<0, 0>>
    /\ centroids[2].coords = <<1, 0>>
    /\ centroids[3].coords = <<10, 10>>

(* C1 as claimed: at no time a link of knnLinks has the same centroid as   *)
(* source and as target.                                                   *)
C1_NoSelfLoops ==
    \A p \in 1..Len(knnLinks) : knnLinks[p].source # knnLinks[p].target

(* C2 as claimed: with fewer than k+1 centroids, after calculateKNN the    *)
(* neighbour set of every centroid is exactly the set of the other         *)
(* centroids.                                                              *)
C2_FewCentroidsAllOthers ==
    (pc = "knnDone" /\ N < knn_k + 1) =>
        \A c \in 1..N : neighbors[c] = Others(c)

(* C3 as claimed: at every step no two links of knnLinks join the same     *)
(* unordered pair of region identifiers.                                   *)
C3_NoDuplicateIdPairs ==
    \A p, q \in 1..Len(knnLinks) :
        p # q => NamePair(knnLinks[p]) # NamePair(knnLinks[q])

C5_OnlyMutualNearest ==
    knn_k = 5 =>
        \A p \in 1..Len(knnLinks) :
            LET a == knnLinks[p].source
                b == knnLinks[p].target
            IN  a # b => (b \in Nearest(a) /\ a \in Nearest(b))

(* C6: in a set of more than k centroids, when the loop of a centroid c    *)
(* has ended it has taken exactly k centroids, c is not one of them, and   *)
(* no other centroid left out is strictly nearer to c than one taken.      *)
C6_ExactlyKNearest ==
    N > knn_k =>
        \A c \in 1..N :
            Completed(c) =>
                /\ Cardinality(neighbors[c]) = knn_k
                /\ c \notin neighbors[c]
                /\ \A a \in neighbors[c] :
                      \A b \in Others(c) \ neighbors[c] :
                          ~(Between(c, b) < Between(c, a))

(* C6's case: more than k centroids, and a centroid whose loop took one    *)
(* and left a strictly farther one out.                                    *)
C6_Witness ==
    /\ pc = "knnDone"
    /\ N > knn_k
    /\ \E c \in 1..N :
          \E a \in neighbors[c] :
              \E b \in Others(c) \ neighbors[c] :
                  Between(c, a) < Between(c, b)

(* C7: candidates at the same distance are ranked by ascending input       *)
(* index: in the sorted array, and at the k boundary, where of two         *)
(* centroids as far from c the one taken has the lower index; what is      *)
(* taken is fixed by the distances and the input indices alone.            *)
C7_TiesByInputIndex ==
    /\ pc = "takeTopK" =>
          \A p, q \in 1..Len(distances) :
              (p < q /\ distances[p].dist = distances[q].dist)
                  => distances[p].index < distances[q].index
    /\ \A c \in 1..N :
          Completed(c) =>
              /\ neighbors[c] \ {c} = Nearest(c)
              /\ \A a \in neighbors[c] \ {c} :
                    \A b \in Others(c) \ neighbors[c] :
                        Between(c, a) = Between(c, b) => a < b

(* C7's case: a tie at the k boundary, one of two centroids as far from c  *)
(* taken and the other left out.                                           *)
C7_Witness ==
    \E c \in 1..N :
        /\ Completed(c)
        /\ \E a \in neighbors[c] \ {c} :
              \E b \in Others(c) \ neighbors[c] :
                  Between(c, a) = Between(c, b) /\ a < b

-----------------------------------------------------------------------------
(* The claims about processCrimeCounts.                                    *)

(* The valid region identifiers: the non-empty names of the input polygons *)
ValidRegionIds ==
    {neighborhoods[j].name : j \in 1..Len(neighborhoods)} \ {undefined, ""}

PointsOf(r, n) == {j \in 1..n : crimes[j] = r}

Unassigned == {j \in 1..Len(crimes) : crimes[j] \notin ValidRegionIds}

RECURSIVE SumOver(_, _)
SumOver(counts, keys) ==
    IF keys = {} THEN 0
    ELSE LET x == CHOOSE y \in keys : TRUE
         IN  counts[x] + SumOver(counts, keys \ {x})

(* C8: after processCrimeCounts the keys of crimeCounts are exactly the    *)
(* valid region identifiers (the non-empty names of the input polygons),   *)
(* and a valid region that no point carries has the count 0.               *)
C8_KeysAreValidRegions ==
    pc = "countsDone" =>
        /\ DOMAIN crimeCounts = ValidRegionIds
        /\ \A r \in ValidRegionIds :
              PointsOf(r, Len(crimes)) = {} => crimeCounts[r] = 0

(* C8's case: a polygon without a name, a point of an unknown region, and  *)
(* a valid region that no point carries, after the counts are computed.    *)
C8_Witness ==
    /\ pc = "countsDone"
    /\ \E j \in 1..Len(neighborhoods) : ~Truthy(neighborhoods[j].name)
    /\ \E j \in 1..Len(crimes) : crimes[j] = "Z"
    /\ \E r \in ValidRegionIds :
          PointsOf(r, Len(crimes)) = {} /\ crimeCounts[r] = 0

(* C9: while and after the points are counted, the count of every valid    *)
(* region is the number of points handled so far that carry its            *)
(* identifier; so a point with an absent or unknown identifier changes no  *)
(* count, and at the end each count is the number of input points of the   *)
(* region.                                                                 *)
C9_CountIsNumberOfPoints ==
    pc \in {"countCrimes", "countsDone"} =>
        \A r \in ValidRegionIds :
            /\ r \in DOMAIN crimeCounts
            /\ crimeCounts[r] = Cardinality(PointsOf(r, i - 1))

(* C9's case: a region with a point, beside a point without identifier    *)
(* and a point of an unknown region.                                       *)
C9_Witness ==
    /\ pc = "countsDone"
    /\ \E r \in ValidRegionIds : crimeCounts[r] = 1
    /\ \E j \in 1..Len(crimes) : crimes[j] = undefined
    /\ \E j \in 1..Len(crimes) : crimes[j] = "Z"

(* C10: after processCrimeCounts the counts of all regions and the number  *)
(* of unassigned points (absent or unknown identifier) add up to the       *)
(* number of input points.                                                 *)
C10_CountsPlusUnassignedIsTotal ==
    pc = "countsDone" =>
        SumOver(crimeCounts, DOMAIN crimeCounts) + Cardinality(Unassigned)
            = Len(crimes)

(* C10's case: counted and unassigned points in the same input.            *)
C10_Witness ==
    /\ pc = "countsDone"
    /\ Len(crimes) >= 3
    /\ Cardinality(Unassigned) >= 1
    /\ SumOver(crimeCounts, DOMAIN crimeCounts) >= 2
    /\ Cardinality(DOMAIN crimeCounts) = 2

-----------------------------------------------------------------------------
(* The claim about the colour scale.                                       *)

(* C20: once createColorScale has run, for the maximum count M >= 1 the    *)
(* threshold domain is ceil(M*0.15), ceil(M*0.35), ceil(M*0.6), ceil(M*1), *)
(* it is non-decreasing, and of two counts 1 <= c1 <= c2 <= M the larger   *)
(* never gets a lighter colour (a lower index of the scheme).              *)
C20_DarkerIsHigher ==
    pc = "createProjection" =>
        LET M == maxCrimeCount
            dom == domain(breaks)
        IN  /\ M >= 1
            /\ Len(dom) = 4
            /\ dom[1] * 100 >= M * 15 /\ (dom[1] - 1) * 100 < M * 15
            /\ dom[2] * 100 >= M * 35 /\ (dom[2] - 1) * 100 < M * 35
            /\ dom[3] * 100 >= M * 60 /\ (dom[3] - 1) * 100 < M * 60
            /\ dom[4] = M
            /\ \A p \in 1..3 : dom[p] <= dom[p + 1]
            /\ \A c1, c2 \in 1..M :
                  c1 <= c2 => getFillColor(breaks, c1) <= getFillColor(breaks, c2)

(* C20's case: a maximum for which all five colours are in use.            *)
C20_Witness ==
    /\ pc = "createProjection"
    /\ maxCrimeCount = MaxCount
    /\ {getFillColor(breaks, c) : c \in 1..maxCrimeCount} = 0..4

-----------------------------------------------------------------------------
(* The claims about a whole run.                                           *)

Nameless(f) == f.name \in {undefined, ""}

(* C11: a polygon whose region identifier is missing or empty has no part  *)
(* in any stage: no key of the counts and no centroid is its own, and the  *)
(* projection is the one fitted to the valid polygons alone.               *)
C11_NamelessPolygonExcluded ==
    (projection.set /\ validNeighborhoods # <<>>) =>
        /\ \A r \in DOMAIN crimeCounts : r \notin {undefined, ""}
        /\ \A j \in 1..Len(centroids) : ~Nameless(centroids[j])
        /\ \A p \in 1..Len(knnLinks) :
              /\ ~Nameless(centroids[knnLinks[p].source])
              /\ ~Nameless(centroids[knnLinks[p].target])
        /\ projection = fitSize(validNeighborhoods)

RECURSIVE FiniteNames(_)
FiniteNames(features) ==
    IF features = <<>> THEN <<>>
    ELSE IF Head(features).nonfinite = finite
         THEN <<Head(features).name>> \o FiniteNames(Tail(features))
         ELSE FiniteNames(Tail(features))

(* C12: calculateCentroids gives the valid polygons whose centroid has     *)
(* two finite coordinates, in input order, and no centroid with a NaN or   *)
(* an infinite coordinate.                                                 *)
C12_NonFiniteLeftOut ==
    pc = "calculateKNN" =>
        /\ [j \in 1..Len(centroids) |-> centroids[j].name]
              = FiniteNames(validNeighborhoods)
        /\ \A j \in 1..Len(centroids) : centroids[j].nonfinite = finite

DuplicateNames ==
    \E a, b \in 1..Len(neighborhoods) :
        /\ a # b
        /\ ~Nameless(neighborhoods[a])
        /\ neighborhoods[a].name = neighborhoods[b].name

(* C13: a run whose polygons repeat a region identifier does not go on     *)
(* silently with both: it shows an error, or it keeps one polygon of the   *)
(* identifier only (one valid polygon, one centroid).                      *)
C13_DuplicatesNotSilent ==
    (DuplicateNames /\ pc \in {"calculateKNN", "takeTopK", "knnDone",
                               "render", "done"}) =>
        \/ errors # <<>>
        \/ /\ \A a, b \in 1..Len(validNeighborhoods) :
                 a # b =>
                    validNeighborhoods[a].name # validNeighborhoods[b].name
           /\ \A a, b \in 1..Len(centroids) :
                 a # b => centroids[a].name # centroids[b].name

(* C15: the projection is set once, before the centroids are computed,     *)
(* and never changes afterwards; every centroid is the offset of a valid   *)
(* polygon in the frame of that one projection.                            *)
C15_ProjectionFixed ==
    [][/\ projection.set => projection' = projection
       /\ (pc = "calculateCentroids" /\ pc' # pc) =>
             /\ projection.set
             /\ projection' = projection
       /\ \A j \in 1..Len(centroids') :
             \E f \in 1..Len(validNeighborhoods') :
                /\ validNeighborhoods'[f].name = centroids'[j].name
                /\ centroids'[j].coords
                      = <<validNeighborhoods'[f].geo[1] - projection'.x0,
                          validNeighborhoods'[f].geo[2] - projection'.y0>>
                /\ projection'.set]_vars

C15_Witness ==
    /\ pc = "done"
    /\ projection.set
    /\ projection.x0 > 0
    /\ Len(centroids) = 2
    /\ Len(knnLinks) > 0

(* C16: components are rendered only when every stage has run to its end   *)
(* without an error; a run that failed shows an error message, has no      *)
(* component and has rendered nothing.                                     *)
C16_AllOrNothing ==
    /\ (components # <<>> \/ rendered # <<>>) =>
          /\ pc \in {"render", "done"}
          /\ errors = <<>>
          /\ \A f \in DOMAIN loads : loads[f] = "resolved"
          /\ \A j \in 1..Len(neighborhoods) :
                neighborhoods[j].name # noProperties
          /\ \A j \in 1..Len(crimes) : crimes[j] # noProperties
          /\ validNeighborhoods = filter(neighborhoods)
          /\ DOMAIN crimeCounts = ValidRegionIds
          /\ SumOver(crimeCounts, DOMAIN crimeCounts) + Cardinality(Unassigned)
                = Len(crimes)
          /\ projection.set
          /\ centroids = mapCentroids(validNeighborhoods, projection)
          /\ i > Len(centroids) \/ pc = "render"
    /\ pc \in {"catch", "failed", "returned"} =>
          /\ components = <<>>
          /\ rendered = <<>>
    /\ pc \in {"failed", "returned"} => Len(errors) = 1

C16_Witness ==
    /\ pc = "failed"
    /\ \A f \in DOMAIN loads : loads[f] = "resolved"
    /\ validNeighborhoods # <<>>
    /\ errors # <<>>
    /\ rendered = <<>>

Stage(p) ==
    CASE p = "loadData" -> 1
      [] p = "validateData" -> 2
      [] p \in {"processData", "initCounts", "countCrimes"} -> 3
      [] p = "countsDone" -> 4
      [] p = "createProjection" -> 5
      [] p = "calculateCentroids" -> 6
      [] p \in {"calculateKNN", "takeTopK"} -> 7
      [] p = "knnDone" -> 8
      [] p = "render" -> 9
      [] p = "done" -> 10
      [] p \in {"returned", "catch", "failed"} -> 11

IsPrefix(s, t) == Len(s) <= Len(t) /\ s = SubSeq(t, 1, Len(s))

(* C19: a run goes through its stages in the order load, counts, colour    *)
(* scale, projection, centroids, nearest neighbours, render, never back    *)
(* and never past one; the components are rendered in the order            *)
(* neighbourhoods, KNN links, centroids, legend, zoom, each once.          *)
C19_StageOrder ==
    [][/\ \/ Stage(pc') = Stage(pc)
          \/ Stage(pc') = Stage(pc) + 1 /\ Stage(pc) < 10
          \/ Stage(pc') = 11
       /\ Stage(pc) = 1 /\ Stage(pc') = 2 =>
             \A f \in DOMAIN loads : loads[f] = "resolved"
       /\ crimeCounts' # crimeCounts => Stage(pc) = 3
       /\ breaks' # breaks => Stage(pc) = 4 /\ Stage(pc') = 5
       /\ projection' # projection => Stage(pc) = 5 /\ Stage(pc') = 6
       /\ centroids' # centroids => Stage(pc) = 6 /\ Stage(pc') = 7
       /\ knnLinks' # knnLinks => Stage(pc) = 7
       /\ rendered' # rendered => Stage(pc) = 9
       /\ IsPrefix(rendered', <<"neighborhoods", "knnLinks", "centroids",
                                "legend", "zoom">>)
       /\ pc' = "done" =>
             rendered' = <<"neighborhoods", "knnLinks", "centroids",
                           "legend", "zoom">>]_vars

C19_Witness ==
    /\ pc = "done"
    /\ Len(rendered) = 5
    /\ Len(centroids) > 0
    /\ Len(crimes) > 0

-----------------------------------------------------------------------------
(* The claims about the order of the centroids and the spatial join.       *)

NoTies ==
    \A c \in 1..N : \A a, b \in Others(c) :
        a # b => Between(c, a) # Between(c, b)

(* b is among the knn_k nearest of c, by distance alone.                   *)
Nearer(c, b) ==
    Cardinality({a \in Others(c) : Between(c, a) < Between(c, b)}) < knn_k

(* The pairs of identifiers that the coordinates alone determine.          *)
OrderFreePairs ==
    {{centroids[x[1]].name, centroids[x[2]].name} :
        x \in {y \in (1..N) \X (1..N) :
                  /\ y[1] # y[2]
                  /\ Nearer(y[1], y[2]) \/ Nearer(y[2], y[1])}}
    \cup (IF N <= knn_k THEN {{centroids[a].name} : a \in 1..N} ELSE {})

(* C17: when no centroid has two others at the same distance, the set of   *)
(* unordered identifier pairs of the links is fixed by the coordinates and *)
(* the names of the centroids, whatever their order in the input.          *)
C17_EdgeSetOrderFree ==
    (pc = "knnDone" /\ NoTies) =>
        {NamePair(knnLinks[p]) : p \in 1..Len(knnLinks)} = OrderFreePairs

C17_Witness ==
    /\ pc = "knnDone"
    /\ NoTies
    /\ knn_k = 1
    /\ N = 3
    /\ centroids[1].coords = <<10, 10>>
    /\ centroids[2].coords = <<1, 0>>
    /\ centroids[3].coords = <<0, 0>>
    /\ centroids[1].name # centroids[2].name
    /\ Len(knnLinks) = 2

Containing(point) ==
    {p \in 1..Len(neighborhoods) :
        /\ neighborhoods[p].name \notin {undefined, ""}
        /\ point \in neighborhoods[p].cells}

(* C18: every point gets one label at most: the identifier of the first    *)
(* valid polygon, in input order, that contains it, and none when no       *)
(* polygon contains it; no error is raised and every point is labelled.    *)
C18_FirstContainingPolygon ==
    /\ Len(crimes) <= Len(points)
    /\ errors = <<>>
    /\ pc = "assigned" => Len(crimes) = Len(points)
    /\ \A j \in 1..Len(crimes) :
          IF Containing(points[j]) = {}
          THEN crimes[j] = undefined
          ELSE \E p \in Containing(points[j]) :
                  /\ \A q \in Containing(points[j]) : p <= q
                  /\ crimes[j] = neighborhoods[p].name

C18_Witness ==
    /\ pc = "assigned"
    /\ Len(points) = 2
    /\ Cardinality(Containing(points[1])) = 2
    /\ neighborhoods[1].name # neighborhoods[2].name
    /\ Containing(points[2]) = {}
    /\ crimes = <<neighborhoods[1].name, undefined>>

-----------------------------------------------------------------------------
(* The claims about loadData and validateData.                             *)

Rejected == \E f \in DOMAIN loads : loads[f] = "rejected"

NothingProcessed ==
    /\ neighborhoods = <<>>
    /\ crimes = <<>>
    /\ validNeighborhoods = <<>>
    /\ crimeCounts = <<>>
    /\ centroids = <<>>
    /\ knnLinks = <<>>
    /\ maxCrimeCount = 0
    /\ breaks = <<>>
    /\ ~projection.set
    /\ components = <<>>
    /\ rendered = <<>>

(* C21: in whatever order the two loads settle, validation and processing  *)
(* start only when both have succeeded; when a load fails the error        *)
(* message is shown, once, and nothing is processed, initialised or        *)
(* rendered in that run.                                                   *)
C21_BothLoadsFirst ==
    /\ [](pc \notin {"loadData", "failed"} =>
            \A f \in DOMAIN loads : loads[f] = "resolved")
    /\ [](Rejected =>
            /\ pc \in {"loadData", "failed"}
            /\ NothingProcessed
            /\ Len(errors) <= 1
            /\ pc = "failed" <=> Len(errors) = 1)
    /\ [][Rejected => Rejected' /\ Len(errors') >= Len(errors)]_vars
    /\ (Rejected ~> Len(errors) = 1)

C21_Witness ==
    /\ pc = "failed"
    /\ loads["neighborhoods"] = "resolved"
    /\ loads["crimes"] = "rejected"
    /\ docs["neighborhoods"].shape = "ok"
    /\ docs["neighborhoods"].features # <<>>
    /\ Len(errors) = 1

Missing(f) == docs[f].shape # "ok"

(* C22: when a loaded document is missing or has no features, validateData *)
(* returns false: the data stays as the constructor left it, one error     *)
(* message is shown (for the neighbourhoods first), and no step follows.   *)
C22_InvalidDocumentLeavesData ==
    /\ []((Missing("neighborhoods") \/ Missing("crimes")) =>
            /\ pc \in {"loadData", "validateData", "returned", "failed"}
            /\ NothingProcessed
            /\ pc = "returned" =>
                  errors = IF Missing("neighborhoods")
                           THEN <<"Invalid neighborhood data structure">>
                           ELSE <<"Invalid crime data structure">>)
    /\ [](pc = "returned" => Missing("neighborhoods") \/ Missing("crimes"))
    /\ [][pc # "returned"]_vars

C22_Witness ==
    /\ pc = "returned"
    /\ docs["neighborhoods"].shape = "ok"
    /\ docs["neighborhoods"].features # <<>>
    /\ docs["crimes"].shape = "nofeatures"
    /\ errors = <<"Invalid crime data structure">>

=============================================================================
